---- MODULE Spec2Model ----
(***************************************************************************)
(* Model of skactiveml/pool/_probal.py: the McPAL and XPAL query           *)
(* strategies, the metric transformation, the optimal prior and the        *)
(* closed-form expected cost reduction.                                    *)
(*                                                                         *)
(* Conventions.  A Python list or numpy array is a TLA+ sequence: numpy    *)
(* position p is sequence position p + 1; candidate and class indices keep *)
(* their 0-based values.  An optional value is a set: {} is None and {v}   *)
(* is the value v.  A real number is a pair <<n, d>> with d > 0 standing   *)
(* for n / d, and <<0, 0>> is NaN.                                         *)
(***************************************************************************)
EXTENDS Integers, Sequences, FiniteSets, TLC

VARIABLES
    strategy,   \* which entry point runs: "XPAL", "McPAL" or "_cost_reduction"
    obj,        \* the attributes of the strategy object (self.*)
    args,       \* the arguments of the call
    env,        \* what the platform and the collaborators supply
    pc,         \* the position of the call in its code
    loc,        \* the local variables of the call
    work,       \* the numeric computations performed so far, in order
    warned,     \* the warnings issued so far
    raised,     \* the exception that ended the call, or None
    returned    \* the value the call returned, or None

vars == <<strategy, obj, args, env, pc, loc, work, warned, raised, returned>>

(***************************************************************************)
(* Bounds of the model.                                                    *)
(***************************************************************************)
MaxCand == 3        \* most candidates in X_cand
MaxBatch == 3       \* largest batch_size argument
MaxLookAhead == 2   \* largest nonmyopic_look_ahead
MaxFreq == 2        \* largest entry of a class-frequency vector
MaxCost == 2        \* largest entry of a cost matrix
MaxPrior == 2       \* largest prior pseudo-count
MaxM == 2           \* largest m_max
MaxLabels == 4      \* largest number of labels given to _gen_l_vec_list
MaxClasses == 3     \* largest number of classes given to _gen_l_vec_list

None == {}
Some(v) == {v}
TheValue(opt) == CHOOSE v \in opt : TRUE

Classes == {0, 1}
n_classes == Cardinality(Classes)

(***************************************************************************)
(* Sequences and reals.                                                    *)
(***************************************************************************)
RECURSIVE SeqSum(_)
SeqSum(s) == IF s = <<>> THEN 0 ELSE Head(s) + SeqSum(Tail(s))

RECURSIVE Concat(_)
Concat(ss) == IF ss = <<>> THEN <<>> ELSE Head(ss) \o Concat(Tail(ss))

Range(s) == {s[i] : i \in DOMAIN s}

Arange(n) == [i \in 1..n |-> i - 1]

NaN == <<0, 0>>
IsNaN(x) == x[2] = 0
Real(n) == <<n, 1>>
RealLess(a, b) == a[1] * b[2] < b[1] * a[2]
RealEq(a, b) == a[1] * b[2] = b[1] * a[2]
RealDiv(a, n) == <<a[1], a[2] * n>>

RECURSIVE Power(_, _)
Power(b, e) == IF e = 0 THEN 1 ELSE b * Power(b, e - 1)

RECURSIVE GCD(_, _)
GCD(a, b) == IF b = 0 THEN a ELSE GCD(b, a % b)

Abs(x) == IF x < 0 THEN -x ELSE x

Reduce(a) ==
    LET g == GCD(Abs(a[1]), a[2])
    IN  IF g = 0 THEN a ELSE <<a[1] \div g, a[2] \div g>>

RealSub(a, b) == Reduce(<<a[1] * b[2] - b[1] * a[2], a[2] * b[2]>>)
RealAdd(a, b) == Reduce(<<a[1] * b[2] + b[1] * a[2], a[2] * b[2]>>)

\* The largest of a non-empty sequence of reals (np.max).
RealLarger(a, b) == IF RealLess(a, b) THEN b ELSE a

RECURSIVE RealMax(_)
RealMax(s) ==
    IF Len(s) = 1 THEN s[1] ELSE RealLarger(s[1], RealMax(Tail(s)))

(***************************************************************************)
(* _gen_l_vec_list: every class labelling vector for m_approx labels.      *)
(***************************************************************************)
\* A faulty variant of ExtendLabelVecs: a label that uses up all the labels
\* still to distribute is left out.
ExtendLabelVecsStrict(label_vec_list, m_approx) ==
    Concat([p \in 1..Len(label_vec_list) |->
              [q \in 1..(m_approx - SeqSum(label_vec_list[p])) |->
                  Append(label_vec_list[p], q - 1)]])

\* One pass of the loop over the classes but the last: each vector is
\* extended by every label of arange(m_approx + 1) that does not exceed the
\* labels still to distribute.
ExtendLabelVecs(label_vec_list, m_approx) ==
    LET label_vec_res == Arange(m_approx + 1)
        fits(labelVec) ==
            SelectSeq(label_vec_res,
                      LAMBDA newLabel :
                          newLabel - (m_approx - SeqSum(labelVec)) <= 0)
    IN  Concat([p \in 1..Len(label_vec_list) |->
                  [q \in 1..Len(fits(label_vec_list[p])) |->
                      Append(label_vec_list[p],
                             fits(label_vec_list[p])[q])]])

RECURSIVE GenLabelPrefixes(_, _)
GenLabelPrefixes(i, m_approx) ==
    IF i <= 0 THEN << <<>> >>
    ELSE ExtendLabelVecs(GenLabelPrefixes(i - 1, m_approx), m_approx)

_gen_l_vec_list(m_approx, nc) ==
    LET label_vec_list == GenLabelPrefixes(nc - 1, m_approx)
    IN  [p \in 1..Len(label_vec_list) |->
            Append(label_vec_list[p], m_approx - SeqSum(label_vec_list[p]))]

(***************************************************************************)
(* euler_beta and multinomial.                                             *)
(***************************************************************************)
RECURSIVE Factorial(_)
Factorial(n) == IF n <= 0 THEN 1 ELSE n * Factorial(n - 1)

RECURSIVE SeqProd(_)
SeqProd(s) == IF s = <<>> THEN 1 ELSE Head(s) * SeqProd(Tail(s))

\* x (x + 1) ... (x + n - 1) = Gamma(x + n) / Gamma(x)
RECURSIVE Rising(_, _)
Rising(x, n) == IF n <= 0 THEN 1 ELSE x * Rising(x + 1, n - 1)

\* euler_beta(a + n) / euler_beta(a) for a vector a of positive entries and
\* a vector n of non-negative integers: the product factor_1 * factor_3 of
\* _cost_reduction, with every Gamma quotient written as a rising factorial.
euler_beta_ratio(a, n) ==
    Reduce(<<SeqProd([i \in 1..Len(a) |-> Rising(a[i], n[i])]),
             Rising(SeqSum(a), SeqSum(n))>>)

multinomial(a) ==
    Factorial(SeqSum(a)) \div SeqProd([i \in 1..Len(a) |-> Factorial(a[i])])

(***************************************************************************)
(* _cost_reduction: the expected cost reduction of each candidate.         *)
(***************************************************************************)
Eye(nc) == [i \in 1..nc |-> [j \in 1..nc |-> IF i = j THEN 1 ELSE 0]]

\* 1 - np.eye(n_classes)
ErrorCostMatrix(nc) == [i \in 1..nc |-> [j \in 1..nc |-> 1 - Eye(nc)[i][j]]]

\* np.argmin: the first position (0-based) of the smallest entry.
Argmin(v) ==
    (CHOOSE p \in 1..Len(v) :
        /\ \A q \in 1..Len(v) : v[p] <= v[q]
        /\ \A q \in 1..(p - 1) : v[q] > v[p]) - 1

\* A faulty variant of y_hat: the decision is taken on the observed
\* frequencies alone, the hypothetical labels left out.
y_hat_without_labels(k_vec, l_vec, C) ==
    Argmin([j \in 1..Len(k_vec) |->
               SeqSum([i \in 1..Len(k_vec) |-> k_vec[i] * C[i][j]])])

\* y_hats[k_idx, l_idx]: the cost-optimal decision for the frequencies
\* k_vec + l_vec, the prior not yet added.
y_hat(k_vec, l_vec, C) ==
    Argmin([j \in 1..Len(k_vec) |->
               SeqSum([i \in 1..Len(k_vec) |->
                          (k_vec[i] + l_vec[i]) * C[i][j]])])

\* C[:, y_hat] @ factor_3[k_idx, l_idx], times factor_1[k_idx].
ExpectedCost(k_prior, l_vec, C, yh) ==
    LET nc == Len(k_prior)
        term(j) ==
            LET r == euler_beta_ratio(
                         k_prior,
                         [i \in 1..nc |-> l_vec[i] + Eye(nc)[j][i]])
            IN  <<C[j][yh + 1] * r[1], r[2]>>
        RECURSIVE Total(_)
        Total(j) == IF j = 0 THEN Real(0) ELSE RealAdd(Total(j - 1), term(j))
    IN  Total(nc)

\* m_sums[k_idx][m]: np.bincount over m_list of the weighted expected costs.
m_sum(k_vec, k_prior, l_vec_list, C, m) ==
    LET RECURSIVE Total(_)
        Total(p) ==
            IF p = 0 THEN Real(0)
            ELSE IF SeqSum(l_vec_list[p]) # m THEN Total(p - 1)
            ELSE LET c == ExpectedCost(k_prior, l_vec_list[p], C,
                                       y_hat(k_vec, l_vec_list[p], C))
                 IN  RealAdd(Total(p - 1),
                             <<multinomial(l_vec_list[p]) * c[1], c[2]>>)
    IN  Total(Len(l_vec_list))

\* A faulty variant of CandidateGain: the costs are subtracted the wrong way
\* round.
CandidateGainReversed(k_vec, C, m_max, prior_vec) ==
    LET nc == Len(k_vec)
        l_vec_list == Concat([m1 \in 1..(m_max + 1) |->
                                 _gen_l_vec_list(m1 - 1, nc)])
        k_prior == [i \in 1..nc |-> k_vec[i] + prior_vec[i]]
        gains == [m \in 1..m_max |->
                     Reduce(RealDiv(
                         RealSub(m_sum(k_vec, k_prior, l_vec_list, C, m),
                                 m_sum(k_vec, k_prior, l_vec_list, C, 0)),
                         m))]
    IN  RealMax(gains)

\* The result for one candidate: the largest gain per acquired label.
CandidateGain(k_vec, C, m_max, prior_vec) ==
    LET nc == Len(k_vec)
        l_vec_list == Concat([m1 \in 1..(m_max + 1) |->
                                 _gen_l_vec_list(m1 - 1, nc)])
        k_prior == [i \in 1..nc |-> k_vec[i] + prior_vec[i]]
        gains == [m \in 1..m_max |->
                     Reduce(RealDiv(
                         RealSub(m_sum(k_vec, k_prior, l_vec_list, C, 0),
                                 m_sum(k_vec, k_prior, l_vec_list, C, m)),
                         m))]
    IN  RealMax(gains)

\* C is an optional cost matrix, prior a sequence holding the prior of each
\* class (a scalar prior is broadcast by prior * np.ones(n_classes)).
_cost_reduction(k_vec_list, C, m_max, prior) ==
    LET nc == Len(k_vec_list[1])
        Cm == IF C = None THEN ErrorCostMatrix(nc) ELSE TheValue(C)
    IN  IF m_max + 1 <= 0
        THEN [raised |-> Some("ValueError"), value |-> <<>>]   \* np.vstack([])
        ELSE IF m_max = 0
        THEN [raised |-> Some("ValueError"), value |-> <<>>]   \* np.max, no columns
        ELSE [raised |-> None,
              value |-> [k_idx \in 1..Len(k_vec_list) |->
                            CandidateGain(k_vec_list[k_idx], Cm, m_max, prior)]]

(***************************************************************************)
(* _transform_metric and calculate_optimal_prior.  An array is a record    *)
(* [shape, data]: shape is the numpy shape tuple, data a vector or a       *)
(* matrix of integers.                                                     *)
(***************************************************************************)
Vector(v) == [shape |-> <<Len(v)>>, data |-> v]
Matrix(rows) ==
    [shape |-> <<Len(rows), IF rows = <<>> THEN 0 ELSE Len(rows[1])>>,
     data |-> rows]

\* check_cost_matrix of skactiveml.utils: the matrix must be square of
\* size n_classes with no negative entry.
check_cost_matrix(cost_matrix, nc) ==
    IF /\ cost_matrix.shape = <<nc, nc>>
       /\ \A i, j \in 1..nc : cost_matrix.data[i][j] >= 0
    THEN None
    ELSE Some("ValueError")

\* cost_vector.shape != (n_classes): the right-hand side is the integer
\* n_classes, not a tuple, and a tuple never equals an integer.
ShapeDiffers(shape, nc) == TRUE

Resolved(metric, cost_matrix, perf_func) ==
    [raised |-> None, metric |-> metric, cost_matrix |-> cost_matrix,
     perf_func |-> perf_func]

Failed(exception) ==
    [raised |-> Some(exception), metric |-> "none", cost_matrix |-> None,
     perf_func |-> None]

\* cost_matrix, cost_vector and perf_func are optional.
_transform_metric(metric, cost_matrix, cost_vector, perf_func, nc) ==
    CASE metric = "error" ->
            Resolved("misclassification-loss",
                     Some(Matrix(ErrorCostMatrix(nc))), None)
      [] metric = "cost-vector" ->
            IF cost_vector = None
               \/ ShapeDiffers(TheValue(cost_vector).shape, nc)
            THEN Failed("ValueError")
            ELSE Resolved(
                     "misclassification-loss",
                     Some(Matrix([i \in 1..nc |-> [j \in 1..nc |->
                         IF i = j THEN 0
                         ELSE TheValue(cost_vector).data[i]]])),
                     None)
      [] metric = "misclassification-loss" ->
            IF cost_matrix = None THEN Failed("ValueError")
            ELSE IF check_cost_matrix(TheValue(cost_matrix), nc) # None
            THEN Failed("ValueError")
            ELSE Resolved("misclassification-loss", cost_matrix, None)
      [] metric = "mean-abs-error" ->
            Resolved("misclassification-loss",
                     Some(Matrix([i \in 1..nc |-> [j \in 1..nc |->
                                     Abs(i - j)]])),
                     None)
      [] metric = "macro-accuracy" ->
            Resolved("custom", None, Some("macro_accuracy_func"))
      [] metric = "f1-score" ->
            Resolved("custom", None, Some("f1_score_func"))
      [] metric = "cohens-kappa" ->
            Resolved("custom", None, perf_func)
      [] OTHER -> Failed("ValueError")

\* The sign-corrected real n / d.
Quotient(n, d) == IF d < 0 THEN Reduce(<<-n, -d>>) ELSE Reduce(<<n, d>>)

\* A faulty variant of calculate_optimal_prior: the weights are normalised
\* without the test for a negative one.
calculate_optimal_prior_unchecked(cost_matrix) ==
    IF cost_matrix = None
    THEN [raised |-> Some("TypeError"), value |-> <<>>]
    ELSE
      LET C == TheValue(cost_matrix).data
          det == C[1][1] * C[2][2] - C[1][2] * C[2][1]
          total == C[2][2] - C[2][1] + C[1][1] - C[1][2]
      IN  IF det = 0
          THEN [raised |-> Some("LinAlgError"), value |-> <<>>]
          ELSE [raised |-> None,
                value |-> <<Quotient(C[2][2] - C[2][1], total),
                            Quotient(C[1][1] - C[1][2], total)>>]

\* cost_matrix is optional.  The inverse of the 2 x 2 matrix (a b; c d) is
\* (d -b; -c a) / (a d - b c), so that ones @ inverse is
\* ((d - c), (a - b)) / (a d - b c).
calculate_optimal_prior(cost_matrix) ==
    IF cost_matrix = None
    THEN [raised |-> Some("TypeError"), value |-> <<>>]      \* len(None)
    ELSE
      LET C == TheValue(cost_matrix).data
          nc == Len(C)
          det == C[1][1] * C[2][2] - C[1][2] * C[2][1]
          M == <<Quotient(C[2][2] - C[2][1], det),
                 Quotient(C[1][1] - C[1][2], det)>>
          total == RealAdd(M[1], M[2])
          uniform == [i \in 1..nc |-> <<1, nc>>]
      IN  IF det = 0
          THEN [raised |-> Some("LinAlgError"), value |-> <<>>]
          ELSE IF \A i \in 1..nc : M[i][1] >= 0
          THEN [raised |-> None,
                value |-> [i \in 1..nc |->
                    IF total[1] = 0 THEN NaN
                    ELSE Reduce(<<M[i][1] * total[2], M[i][2] * total[1]>>)]]
          ELSE [raised |-> None, value |-> uniform]

(***************************************************************************)
(* The collaborators of XPAL.query: the kernel, the tie-breaking arg-max   *)
(* and the classifier with its probability estimators.                     *)
(***************************************************************************)
\* pairwise_kernels on one-dimensional instances: a similarity that falls
\* with the distance of the two instances.
K(X1, X2) ==
    [a \in 1..Len(X1) |-> [b \in 1..Len(X2) |-> Real(0 - Abs(X1[a] - X2[b]))]]

\* np.full([rows, cols], np.nan)
FullNaN(rows, cols) == [a \in 1..rows |-> [b \in 1..cols |-> NaN]]

\* np.nanmax of one row: the largest entry that is not NaN.
NanMax(row) ==
    LET nums == SelectSeq(row, LAMBDA x : ~IsNaN(x))
    IN  IF nums = <<>> THEN NaN ELSE RealMax(nums)

\* The positions (1-based) holding the largest entry of a.
ArgmaxSet(a) ==
    LET largest == NanMax(a)
    IN  {p \in 1..Len(a) : ~IsNaN(a[p]) /\ RealEq(a[p], largest)}

\* rand_argmax of skactiveml.utils: the positions (0-based) it can return.
\* Ties among the exact maxima are broken by random numbers drawn from
\* random_state: a seed fixes the draw, and with it the tie chosen; without
\* a seed (None) the global generator decides.
rand_argmax(a, random_state) ==
    LET ties == ArgmaxSet(a)
        first == CHOOSE p \in ties : \A q \in ties : p <= q
        last == CHOOSE p \in ties : \A q \in ties : q <= p
    IN  IF ties = {} THEN {0}
        ELSE IF random_state = None THEN {p - 1 : p \in ties}
        ELSE IF TheValue(random_state) % 2 = 0 THEN {first - 1}
        ELSE {last - 1}

\* The tuples that extend perm by one of the indices in rest.
ExtendPermutation(perm, rest) ==
    [q \in 1..Len(rest) |-> Append(perm, rest[q])]

\* Every tuple of shorter extended by every index of range(n) it lacks.
ExtendPermutations(shorter, n) ==
    Concat([p \in 1..Len(shorter) |->
              ExtendPermutation(
                  shorter[p],
                  SelectSeq(Arange(n),
                            LAMBDA c : c \notin Range(shorter[p])))])

\* A faulty variant of ItertoolsPermutations: itertools.combinations, the
\* ascending selections only.
ExtendAscending(comb, larger) ==
    [q \in 1..Len(larger) |-> Append(comb, larger[q])]

ExtendCombinations(shorter, n) ==
    Concat([p \in 1..Len(shorter) |->
              ExtendAscending(
                  shorter[p],
                  SelectSeq(Arange(n),
                            LAMBDA c : \A a \in DOMAIN shorter[p] :
                                          shorter[p][a] < c))])

RECURSIVE ItertoolsCombinations(_, _)
ItertoolsCombinations(n, r) ==
    IF r = 0 THEN << <<>> >>
    ELSE ExtendCombinations(ItertoolsCombinations(n, r - 1), n)

\* list(itertools.permutations(range(n), r)), in the order it yields them.
RECURSIVE ItertoolsPermutations(_, _)
ItertoolsPermutations(n, r) ==
    IF r = 0 THEN << <<>> >>
    ELSE ExtendPermutations(ItertoolsPermutations(n, r - 1), n)

\* np.setdiff1d(np.arange(n), best_indices): sorted.
Setdiff1d(n, best_indices) ==
    SelectSeq(Arange(n), LAMBDA c : c \notin Range(best_indices))

\* numpy accepts the index idx on an axis of length n.
InBounds(idx, n) == -n <= idx /\ idx < n

\* The position (0-based, non-negative) numpy reads for the index idx.
Wrap(idx, n) == IF idx < 0 THEN idx + n ELSE idx

\* matrix[rows][:, cols] for index sequences rows and cols.
Submatrix(matrix, rows, cols) ==
    [a \in 1..Len(rows) |-> [b \in 1..Len(cols) |->
        matrix[Wrap(rows[a], Len(matrix)) + 1]
              [Wrap(cols[b], Len(matrix)) + 1]]]

\* (-row).argsort(): the positions (0-based) by falling similarity, equal
\* entries (and NaN, which sorts last) keeping their order.
ArgsortDescending(row) ==
    LET before(p, q) ==
            \/ ~IsNaN(row[p]) /\ IsNaN(row[q])
            \/ ~IsNaN(row[p]) /\ ~IsNaN(row[q]) /\ RealLess(row[q], row[p])
        precedes(p, q) ==
            before(p, q) \/ (~before(q, p) /\ p < q)
        rank(p) == Cardinality({q \in 1..Len(row) : precedes(q, p)})
    IN  [i \in 1..Len(row) |->
            (CHOOSE p \in 1..Len(row) : rank(p) = i - 1) - 1]

FirstM(s, M) == SubSeq(s, 1, IF M < Len(s) THEN M ELSE Len(s))

_get_nonmyopic_cand_set(neighbors, cand_idx, sim_cand, M) ==
    CASE neighbors = "same" ->
            [raised |-> None,
             value |-> [a \in 1..Len(cand_idx) |->
                           [b \in 1..M |-> cand_idx[a]]]]
      [] neighbors = "nearest" ->
            IF \E a \in 1..Len(cand_idx) : ~InBounds(cand_idx[a], Len(sim_cand))
            THEN [raised |-> Some("IndexError"), value |-> <<>>]
            ELSE LET sub == Submatrix(sim_cand, cand_idx, cand_idx)
                 IN  [raised |-> None,
                      value |-> [a \in 1..Len(sub) |->
                                    FirstM(ArgsortDescending(sub[a]), M)]]
      [] OTHER -> [raised |-> Some("ValueError"), value |-> <<>>]

\* The sum over the hypothetical labellings of one index set of
\* _dperf(...) * prob_y_sim: what the classifier and the two probability
\* estimators yield for it.  Every candidate contributes the gain the
\* collaborators assign to it.
ExpectedPerformanceGain(cand_idx, score) ==
    SeqSum([a \in 1..Len(cand_idx) |->
               score[Wrap(cand_idx[a], Len(score)) + 1]])

\* The matrix nonmyopic_gain returns for the index sets cand_idx_set, each
\* a row.  In nonmyopic mode column d holds the gain of the first d indices
\* of the row; after every row the whole matrix is divided by 1, 2, ...
\* along its columns, so row r of n_rows rows is divided n_rows - r + 1 times.
\* With nonmyopic_independence unset, dependent_cand_prob is called with one
\* argument more than it takes.
nonmyopic_gain(cand_idx_set, n_cand, score, gain_mode, nonmyopic_independence) ==
    LET n_rows == Len(cand_idx_set)
    IN  IF n_rows = 0
        THEN [raised |-> Some("IndexError"), value |-> <<>>]  \* shape[1]
        ELSE IF Len(cand_idx_set[1]) = 0
        THEN [raised |-> Some("IndexError"), value |-> <<>>]  \* float index
        ELSE IF \E r \in 1..n_rows : \E d \in 1..Len(cand_idx_set[r]) :
                    ~InBounds(cand_idx_set[r][d], n_cand)
        THEN [raised |-> Some("IndexError"), value |-> <<>>]
        ELSE IF ~nonmyopic_independence
        THEN [raised |-> Some("TypeError"), value |-> <<>>]
        ELSE IF gain_mode = "nonmyopic"
        THEN [raised |-> None,
              value |-> [r \in 1..n_rows |->
                  [d \in 1..Len(cand_idx_set[r]) |->
                      Reduce(<<ExpectedPerformanceGain(
                                   SubSeq(cand_idx_set[r], 1, d), score),
                               Power(d, n_rows - r + 1)>>)]]]
        ELSE [raised |-> None,
              value |-> [r \in 1..n_rows |->
                  << Real(ExpectedPerformanceGain(cand_idx_set[r], score)) >>]]

(***************************************************************************)
(* A call of _cost_reduction on its own.                                   *)
(***************************************************************************)
FreqVectors == [1..n_classes -> 0..MaxFreq]

\* Non-negative cost matrices with a zero diagonal.
CostMatrices ==
    {C \in [1..n_classes -> [1..n_classes -> 0..MaxCost]] :
        \A i \in 1..n_classes : C[i][i] = 0}

PriorVectors == [1..n_classes -> 1..MaxPrior]

IsScalarPrior(prior) == \A i, j \in DOMAIN prior : prior[i] = prior[j]

\* The two candidates of the end-to-end scenario, next to the small ones.
ScenarioFreqs == << <<5, 5>>, <<10, 0>> >>
ScenarioCost == << <<0, 1>>, <<1, 0>> >>
ScenarioPrior == <<1, 1>>

CostReductionArgs ==
    {[k_vec_list |-> <<k>>, C |-> c, m_max |-> m, prior |-> p] :
        k \in FreqVectors,
        c \in {None} \cup {Some(C) : C \in CostMatrices},
        m \in (-1)..MaxM,
        p \in PriorVectors}
    \cup
    {[k_vec_list |-> <<k>>, C |-> None, m_max |-> m, prior |-> <<p, p, p>>] :
        k \in [1..3 -> 0..MaxFreq], m \in 1..MaxM, p \in 1..MaxPrior}
    \cup
    {[k_vec_list |-> ScenarioFreqs, C |-> c, m_max |-> 1,
      prior |-> ScenarioPrior] : c \in {None, Some(ScenarioCost)}}

NoObject == [class |-> "none"]
NoEnv == [platform |-> "none"]
NoLocals == [state |-> "none"]

InitCost ==
    /\ strategy = "_cost_reduction"
    /\ obj = NoObject
    /\ args \in CostReductionArgs
    /\ env = NoEnv
    /\ pc = "start"
    /\ loc = NoLocals
    /\ work = <<>>
    /\ warned = <<>>
    /\ raised = None
    /\ returned = None

CostReductionCall ==
    /\ strategy = "_cost_reduction"
    /\ pc = "start"
    /\ LET r == _cost_reduction(args.k_vec_list, args.C, args.m_max,
                                args.prior)
       IN  /\ raised' = r.raised
           /\ returned' = IF r.raised = None THEN Some(r.value) ELSE None
           /\ pc' = IF r.raised = None THEN "returned" ELSE "raised"
           /\ work' = IF r.raised = None THEN <<"utilities">> ELSE work
    /\ UNCHANGED <<strategy, obj, args, env, loc, warned>>

NextCost == CostReductionCall

SpecCost == InitCost /\ [][NextCost]_vars

(***************************************************************************)
(* XPAL.query.                                                             *)
(***************************************************************************)
\* What np.full([batch_size], np.nan, dtype=int) holds: the cast of NaN to
\* an integer is left to the platform, which yields the smallest integer
\* (x86) or 0 (ARM).
IntMin == 0 - 2147483647 - 1
NanAsInt == {IntMin, 0}

Metrics ==
    {"error", "cost-vector", "misclassification-loss", "mean-abs-error",
     "macro-accuracy", "f1-score", "cohens-kappa", "accuracy"}

CostVectorArgs == {None, Some(Vector(<<1, 2>>)), Some(Vector(<<1, 2, 3>>))}

CostMatrixArgs ==
    {None, Some(Matrix(<< <<0, -1>>, <<1, 0>> >>)),
     Some(Matrix(<< <<0, 1>> >>))}
    \cup {Some(Matrix(C)) : C \in CostMatrices}

BatchModes == {"greedy", "full", "sequential"}
NeighborModes == {"nearest", "same", "farthest"}
Seeds == {None, Some(0), Some(1)}

\* The gains the collaborators report for one candidate.
Scores == {0, 1}

\* Candidates on a line, evenly spaced or spreading out.
CandidateSets(n) == {[c \in 1..n |-> c - 1], [c \in 1..n |-> (c - 1) * (c - 1)]}

\* prior_cand=1.e-3, prior_eval=1.e-3: the defaults, and the values a caller
\* may give instead.
DefaultPriorScale == <<1, 1000>>
PriorScaleArgs == {<<p, 1000>> : p \in 1..MaxPrior}

\* self.prior_cand * prior: every entry of the prior times the scalar.
ScaledPrior(scale, prior) ==
    [k \in DOMAIN prior |->
        Reduce(<<scale[1] * prior[k][1], scale[2] * prior[k][2]>>)]

XPALObject(metric, cost_vector, cost_matrix, batch_mode, look_ahead, neighbors, independence, random_state) ==
    [class |-> "XPAL",
     metric |-> metric,
     cost_vector |-> cost_vector,
     cost_matrix |-> cost_matrix,
     custom_perf_func |-> None,
     prior_cand |-> DefaultPriorScale,
     prior_eval |-> DefaultPriorScale,
     estimator_metric_dict |-> None,
     batch_mode |-> batch_mode,
     nonmyopic_look_ahead |-> look_ahead,
     nonmyopic_neighbors |-> neighbors,
     nonmyopic_independence |-> independence,
     random_state |-> random_state,
     _prior_cand |-> None,
     _prior_eval |-> None]

XPALLocals ==
    [metric |-> None, cost_matrix |-> None, perf_func |-> None,
     prior |-> None, sim_c_c |-> None,
     prob_estimator_cand |-> None, prob_estimator_eval |-> None,
     i_greedy |-> 0, best_indices |-> None, utilities |-> None,
     unlabeled_cand_idx |-> <<>>, cand_idx_set |-> <<>>,
     tmp_utilities |-> <<>>, selected |-> <<>>, steps |-> <<>>]

\* The configurations: every metric, batch mode, look-ahead, neighbourhood
\* and batch size, on two candidates.
InitXPALConfigured ==
    /\ obj \in {XPALObject(metric, cv, cm, mode, la, nb, ind, Some(0)) :
                  metric \in Metrics, cv \in CostVectorArgs,
                  cm \in CostMatrixArgs, mode \in BatchModes,
                  la \in 1..MaxLookAhead, nb \in NeighborModes,
                  ind \in BOOLEAN}
    /\ obj.metric \notin {"cost-vector", "misclassification-loss"}
          => obj.cost_vector = None /\ obj.cost_matrix = None
    /\ args \in {[X_cand |-> <<0, 1>>, batch_size |-> b] : b \in 0..MaxBatch}
    /\ env = [nan_as_int |-> IntMin, score |-> <<0, 0>>]

\* The selections under the error metric: every candidate set, gain, seed
\* and platform, for the batch and neighbourhood modes the code knows.
InitXPALSelecting ==
    /\ obj \in {XPALObject("error", None, None, mode, la, nb, TRUE, rs) :
                  mode \in {"greedy", "full"}, la \in 1..MaxLookAhead,
                  nb \in {"nearest", "same"}, rs \in Seeds}
    /\ \E n \in 1..MaxCand :
          /\ args \in {[X_cand |-> X, batch_size |-> b] :
                          X \in CandidateSets(n), b \in 1..MaxBatch}
          /\ env \in {[nan_as_int |-> z, score |-> sc] :
                          z \in NanAsInt, sc \in [1..n -> Scores]}

\* The priors a caller gives to the constructor, for one selection.
InitXPALPriors ==
    /\ obj \in {[XPALObject("error", None, None, "greedy", 1, "same", TRUE,
                            Some(0))
                    EXCEPT !.prior_cand = a, !.prior_eval = b] :
                  a \in PriorScaleArgs, b \in PriorScaleArgs}
    /\ args = [X_cand |-> <<0, 1>>, batch_size |-> 1]
    /\ env = [nan_as_int |-> IntMin, score |-> <<0, 1>>]

InitXPAL ==
    /\ strategy = "XPAL"
    /\ \/ InitXPALConfigured
       \/ InitXPALSelecting
       \/ InitXPALPriors
    /\ pc = "start"
    /\ loc = XPALLocals
    /\ work = <<>>
    /\ warned = <<>>
    /\ raised = None
    /\ returned = None

n_cand == Len(args.X_cand)

\* The call ends with the exception.
Raise(exception) ==
    /\ raised' = Some(exception)
    /\ pc' = "raised"

\* Lines 304-320: the label encoder, the default of estimator_metric_dict
\* and the resolution of the metric.
XPALTransformMetric ==
    /\ strategy = "XPAL"
    /\ pc = "start"
    /\ obj' = [obj EXCEPT !.estimator_metric_dict =
                              IF @ = None THEN Some({}) ELSE @]
    /\ LET t == _transform_metric(obj.metric, obj.cost_vector,
                                  obj.cost_matrix, obj.custom_perf_func,
                                  n_classes)
       IN  IF t.raised # None
           THEN /\ Raise(TheValue(t.raised))
                /\ UNCHANGED <<loc, work>>
           ELSE /\ loc' = [loc EXCEPT !.metric = Some(t.metric),
                                      !.cost_matrix = t.cost_matrix,
                                      !.perf_func = t.perf_func]
                /\ work' = Append(work, "_transform_metric")
                /\ pc' = "prior"
                /\ UNCHANGED raised
    /\ UNCHANGED <<strategy, args, env, warned, returned>>

\* Lines 328-333: the optimal prior and the two scaled priors.
XPALOptimalPrior ==
    /\ strategy = "XPAL"
    /\ pc = "prior"
    /\ LET p == calculate_optimal_prior(loc.cost_matrix)
       IN  IF p.raised # None
           THEN /\ Raise(TheValue(p.raised))
                /\ UNCHANGED <<obj, loc, work>>
           ELSE /\ loc' = [loc EXCEPT !.prior = Some(p.value)]
                /\ obj' = [obj EXCEPT
                             !._prior_cand =
                                 Some(ScaledPrior(obj.prior_cand, p.value)),
                             !._prior_eval =
                                 Some(ScaledPrior(obj.prior_eval, p.value))]
                /\ work' = Append(work, "calculate_optimal_prior")
                /\ pc' = "kernels"
                /\ UNCHANGED raised
    /\ UNCHANGED <<strategy, args, env, warned, returned>>

\* Lines 335-376: the kernel matrices and the two probability estimators.
XPALKernels ==
    /\ strategy = "XPAL"
    /\ pc = "kernels"
    /\ loc' = [loc EXCEPT
                 !.sim_c_c =
                     IF args.batch_size > 1 \/ obj.nonmyopic_look_ahead > 1
                     THEN Some(K(args.X_cand, args.X_cand))
                     ELSE Some(FullNaN(n_cand, n_cand)),
                 !.prob_estimator_cand = Some([prior |-> obj._prior_cand]),
                 !.prob_estimator_eval = Some([prior |-> obj._prior_cand])]
    /\ work' = Append(work, "pairwise_kernels")
    /\ pc' = "select"
    /\ UNCHANGED <<strategy, obj, args, env, warned, raised, returned>>

\* Lines 378-413: the search over the ordered batches.
XPALFull ==
    /\ strategy = "XPAL"
    /\ pc = "select"
    /\ obj.batch_mode = "full"
    /\ IF obj.nonmyopic_look_ahead > 1
       THEN /\ Raise("NotImplementedError")
            /\ UNCHANGED <<loc, work>>
       ELSE
         \E cand_idx_set \in
                 {ItertoolsPermutations(n_cand, args.batch_size)} :
         \E g \in {nonmyopic_gain(cand_idx_set, n_cand, env.score, "batch",
                                   obj.nonmyopic_independence)} :
         \E tmp_utilities \in
                 {[r \in 1..Len(g.value) |-> NanMax(g.value[r])]} :
             IF g.raised # None
             THEN /\ Raise(TheValue(g.raised))
                  /\ UNCHANGED <<loc, work>>
             ELSE \E cur_best_idx \in rand_argmax(tmp_utilities,
                                                  obj.random_state) :
                    /\ loc' = [loc EXCEPT
                         !.cand_idx_set = cand_idx_set,
                         !.tmp_utilities = tmp_utilities,
                         !.utilities =
                             Some(FullNaN(args.batch_size, n_cand)),
                         !.best_indices =
                             Some(<< cand_idx_set[cur_best_idx + 1] >>)]
                    /\ work' = Append(work, "nonmyopic_gain")
                    /\ pc' = "return"
                    /\ UNCHANGED raised
    /\ UNCHANGED <<strategy, obj, args, env, warned, returned>>

\* utilities[i_greedy, unlabeled_cand_idx] = tmp_utilities
SetRow(utilities, i_greedy, unlabeled_cand_idx, tmp_utilities) ==
    [a \in 1..Len(utilities) |->
        IF a # i_greedy + 1 THEN utilities[a]
        ELSE [b \in 1..Len(utilities[a]) |->
                 IF \E u \in 1..Len(unlabeled_cand_idx) :
                        unlabeled_cand_idx[u] = b - 1
                 THEN tmp_utilities[CHOOSE u \in 1..Len(unlabeled_cand_idx) :
                                        unlabeled_cand_idx[u] = b - 1]
                 ELSE utilities[a][b]]]

\* Lines 416-458: one pass of the greedy loop.
XPALGreedyStep ==
    /\ strategy = "XPAL"
    /\ pc = "select"
    /\ obj.batch_mode = "greedy"
    /\ loc.i_greedy < args.batch_size
    /\ \E i_greedy \in {loc.i_greedy} :
       \E utilities \in {FullNaN(args.batch_size, n_cand)} :
       \E best_indices \in {[a \in 1..args.batch_size |-> env.nan_as_int]} :
       \E unlabeled_cand_idx \in {Setdiff1d(n_cand, best_indices)} :
       \E sets \in {_get_nonmyopic_cand_set(
                       obj.nonmyopic_neighbors,
                       unlabeled_cand_idx,
                       Submatrix(TheValue(loc.sim_c_c), unlabeled_cand_idx,
                                 unlabeled_cand_idx),
                       obj.nonmyopic_look_ahead)} :
       \E cand_idx_set \in {[c \in 1..Len(sets.value) |->
                                SubSeq(best_indices, 1, i_greedy)
                                    \o sets.value[c]]} :
       \E g \in {nonmyopic_gain(cand_idx_set, n_cand, env.score, "nonmyopic",
                                 obj.nonmyopic_independence)} :
       \E tmp_utilities \in
               {[r \in 1..Len(g.value) |-> NanMax(g.value[r])]} :
           IF sets.raised # None
           THEN /\ Raise(TheValue(sets.raised))
                /\ UNCHANGED <<loc, work>>
           ELSE IF g.raised # None
           THEN /\ Raise(TheValue(g.raised))
                /\ UNCHANGED <<loc, work>>
           ELSE \E cur_best_idx \in rand_argmax(tmp_utilities,
                                                obj.random_state) :
                  /\ loc' = [loc EXCEPT
                       !.unlabeled_cand_idx = unlabeled_cand_idx,
                       !.cand_idx_set = cand_idx_set,
                       !.tmp_utilities = tmp_utilities,
                       !.best_indices =
                           Some([best_indices EXCEPT ![i_greedy + 1] =
                                    unlabeled_cand_idx[cur_best_idx + 1]]),
                       !.utilities =
                           Some(SetRow(utilities, i_greedy,
                                       unlabeled_cand_idx, tmp_utilities)),
                       !.selected =
                           Append(@, unlabeled_cand_idx[cur_best_idx + 1]),
                       !.steps =
                           Append(@, [unlabeled_cand_idx |->
                                          unlabeled_cand_idx,
                                      tmp_utilities |-> tmp_utilities]),
                       !.i_greedy = i_greedy + 1]
                  /\ work' = Append(work, "nonmyopic_gain")
                  /\ pc' = IF i_greedy + 1 < args.batch_size
                           THEN "select" ELSE "return"
                  /\ UNCHANGED raised
    /\ UNCHANGED <<strategy, obj, args, env, warned, returned>>

\* Lines 460-461.
XPALUnknownBatchMode ==
    /\ strategy = "XPAL"
    /\ pc = "select"
    /\ obj.batch_mode \notin {"full", "greedy"}
    /\ Raise("ValueError")
    /\ UNCHANGED <<strategy, obj, args, env, loc, work, warned, returned>>

\* Lines 463-466.  A greedy loop that made no pass leaves best_indices and
\* utilities unbound.
XPALReturn ==
    /\ strategy = "XPAL"
    /\ \/ pc = "return"
       \/ /\ pc = "select"
          /\ obj.batch_mode = "greedy"
          /\ loc.i_greedy >= args.batch_size
    /\ IF loc.best_indices = None
       THEN /\ Raise("UnboundLocalError")
            /\ UNCHANGED returned
       ELSE /\ returned' = Some([best_indices |-> TheValue(loc.best_indices),
                                 utilities |-> TheValue(loc.utilities)])
            /\ pc' = "returned"
            /\ UNCHANGED raised
    /\ UNCHANGED <<strategy, obj, args, env, loc, work, warned>>

NextXPAL ==
    \/ XPALTransformMetric
    \/ XPALOptimalPrior
    \/ XPALKernels
    \/ XPALFull
    \/ XPALGreedyStep
    \/ XPALUnknownBatchMode
    \/ XPALReturn

SpecXPAL == InitXPAL /\ [][NextXPAL]_vars

(***************************************************************************)
(* McPAL.query.                                                            *)
(***************************************************************************)
\* m_max as a real: the integers from -1 on, and two values between them.
MMaxArgs == {Real(m) : m \in (-1)..MaxM} \cup {<<1, 2>>, <<3, 2>>}

IsInteger(x) == x[1] % x[2] = 0

\* The frequency vectors clf.predict_freq reports, for one or two candidates.
PredictedFreqs ==
    LET small == {k \in FreqVectors : SeqSum(k) <= MaxFreq}
    IN  {<<k>> : k \in small} \cup {<<k1, k2>> : k1 \in small, k2 \in small}

McPALObject(is_estimator, prior, m_max, random_state) ==
    [class |-> "McPAL",
     clf |-> [ClassFrequencyEstimator |-> is_estimator, clone |-> FALSE,
              fitted |-> FALSE],
     prior |-> prior,
     m_max |-> m_max,
     random_state |-> random_state]

McPALLocals == [k_vec |-> None, utilities |-> None]

\* Every combination of a valid or invalid classifier, prior, m_max and
\* batch size.
InitMcPALValidating ==
    /\ obj \in {McPALObject(e, p, m, Some(0)) :
                  e \in BOOLEAN, p \in 0..MaxPrior, m \in MMaxArgs}
    /\ args \in {[batch_size |-> b] : b \in 0..MaxBatch}
    /\ env = [k_vec |-> << <<1, 1>>, <<2, 0>> >>]

\* The valid configurations on every set of predicted frequencies.
InitMcPALSelecting ==
    /\ obj \in {McPALObject(TRUE, p, Real(m), rs) :
                  p \in 1..MaxPrior, m \in 1..MaxM, rs \in Seeds}
    /\ args \in {[batch_size |-> b] : b \in 1..MaxBatch}
    /\ env \in {[k_vec |-> k] : k \in PredictedFreqs}

InitMcPAL ==
    /\ strategy = "McPAL"
    /\ InitMcPALValidating \/ InitMcPALSelecting
    /\ pc = "start"
    /\ loc = McPALLocals
    /\ work = <<>>
    /\ warned = <<>>
    /\ raised = None
    /\ returned = None

\* Lines 77-82: the classifier is checked and replaced by a clone.
McPALCheckClassifier ==
    /\ strategy = "McPAL"
    /\ pc = "start"
    /\ IF ~obj.clf.ClassFrequencyEstimator
       THEN /\ Raise("TypeError")
            /\ UNCHANGED obj
       ELSE /\ obj' = [obj EXCEPT !.clf.clone = TRUE]
            /\ pc' = "check_params"
            /\ UNCHANGED raised
    /\ UNCHANGED <<strategy, args, env, loc, work, warned, returned>>

\* A faulty variant of McPALCheckParams: m_max is not checked.
McPALCheckPriorOnly ==
    /\ strategy = "McPAL"
    /\ pc = "check_params"
    /\ IF ~(obj.prior > 0)
       THEN Raise("ValueError")
       ELSE /\ pc' = "check_data"
            /\ UNCHANGED raised
    /\ UNCHANGED <<strategy, obj, args, env, loc, work, warned, returned>>

\* Lines 84-90: prior must be positive, m_max a positive integer.
McPALCheckParams ==
    /\ strategy = "McPAL"
    /\ pc = "check_params"
    /\ IF ~(obj.prior > 0)
       THEN Raise("ValueError")
       ELSE IF RealLess(obj.m_max, Real(1)) \/ ~IsInteger(obj.m_max)
       THEN Raise("ValueError")
       ELSE /\ pc' = "check_data"
            /\ UNCHANGED raised
    /\ UNCHANGED <<strategy, obj, args, env, loc, work, warned, returned>>

\* Lines 92-98: the data and batch_size are checked.
McPALCheckData ==
    /\ strategy = "McPAL"
    /\ pc = "check_data"
    /\ IF args.batch_size < 1
       THEN Raise("ValueError")
       ELSE /\ pc' = "utilities"
            /\ UNCHANGED raised
    /\ UNCHANGED <<strategy, obj, args, env, loc, work, warned, returned>>

\* Lines 100-104: the classifier is fitted and the utilities are computed,
\* every candidate with the sample weight 1.
McPALUtilities ==
    /\ strategy = "McPAL"
    /\ pc = "utilities"
    /\ LET k_vec == env.k_vec
           r == _cost_reduction(k_vec, None, obj.m_max[1] \div obj.m_max[2],
                                [i \in 1..Len(k_vec[1]) |-> obj.prior])
       IN  /\ obj' = [obj EXCEPT !.clf.fitted = TRUE]
           /\ IF r.raised # None
              THEN /\ Raise(TheValue(r.raised))
                   /\ work' = Append(work, "fit")
                   /\ UNCHANGED loc
              ELSE /\ loc' = [loc EXCEPT !.k_vec = Some(k_vec),
                                         !.utilities = Some(r.value)]
                   /\ work' = work \o <<"fit", "_cost_reduction">>
                   /\ pc' = "return"
                   /\ UNCHANGED raised
    /\ UNCHANGED <<strategy, args, env, warned, returned>>

\* Lines 105-109: one index is drawn among the candidates of largest utility.
McPALReturn ==
    /\ strategy = "McPAL"
    /\ pc = "return"
    /\ \E index \in rand_argmax(TheValue(loc.utilities), obj.random_state) :
          returned' = Some([query_indices |-> <<index>>,
                            utilities |-> <<TheValue(loc.utilities)>>])
    /\ pc' = "returned"
    /\ UNCHANGED <<strategy, obj, args, env, loc, work, warned, raised>>

NextMcPAL ==
    \/ McPALCheckClassifier
    \/ McPALCheckParams
    \/ McPALCheckData
    \/ McPALUtilities
    \/ McPALReturn

SpecMcPAL == InitMcPAL /\ [][NextMcPAL]_vars

(***************************************************************************)
(* Calls of _transform_metric, calculate_optimal_prior, _gen_l_vec_list     *)
(* and nonmyopic_gain on their own.                                        *)
(***************************************************************************)
\* The numbers of classes a metric is resolved for.
ClassCounts == {2, 3}

TransformMetricArgs ==
    {[metric |-> metric, cost_matrix |-> cm, cost_vector |-> cv,
      perf_func |-> None, n_classes |-> nc] :
        metric \in Metrics, cm \in CostMatrixArgs, cv \in CostVectorArgs,
        nc \in ClassCounts}

InitTransformMetric ==
    /\ strategy = "_transform_metric"
    /\ args \in TransformMetricArgs

TransformMetricCall ==
    /\ strategy = "_transform_metric"
    /\ pc = "start"
    /\ \E t \in {_transform_metric(args.metric, args.cost_matrix,
                                    args.cost_vector, args.perf_func,
                                    args.n_classes)} :
           /\ raised' = t.raised
           /\ returned' = IF t.raised = None
                          THEN Some([metric |-> t.metric,
                                     cost_matrix |-> t.cost_matrix,
                                     perf_func |-> t.perf_func])
                          ELSE None
           /\ pc' = IF t.raised = None THEN "returned" ELSE "raised"
    /\ UNCHANGED <<strategy, obj, args, env, loc, work, warned>>

\* The 2 x 2 matrices with entries up to MaxCost, and no matrix.
OptimalPriorArgs ==
    {[cost_matrix |-> None]}
    \cup {[cost_matrix |-> Some(Matrix(C))] :
             C \in [1..2 -> [1..2 -> 0..MaxCost]]}

InitOptimalPrior ==
    /\ strategy = "calculate_optimal_prior"
    /\ args \in OptimalPriorArgs

OptimalPriorCall ==
    /\ strategy = "calculate_optimal_prior"
    /\ pc = "start"
    /\ \E p \in {calculate_optimal_prior(args.cost_matrix)} :
           /\ raised' = p.raised
           /\ returned' = IF p.raised = None THEN Some(p.value) ELSE None
           /\ pc' = IF p.raised = None THEN "returned" ELSE "raised"
    /\ UNCHANGED <<strategy, obj, args, env, loc, work, warned>>

\* Numbers of labels and of classes, the invalid ones below 0 and 1
\* included.
GenLabelVecArgs ==
    {[m_approx |-> m, n_classes |-> nc] :
        m \in (-2)..MaxLabels, nc \in 0..MaxClasses}

InitGenLabelVec ==
    /\ strategy = "_gen_l_vec_list"
    /\ args \in GenLabelVecArgs

\* No statement of _gen_l_vec_list raises for integer arguments.
GenLabelVecCall ==
    /\ strategy = "_gen_l_vec_list"
    /\ pc = "start"
    /\ returned' = Some(_gen_l_vec_list(args.m_approx, args.n_classes))
    /\ pc' = "returned"
    /\ UNCHANGED <<strategy, obj, args, env, loc, work, warned, raised>>

\* One to three index sets of equal length over two candidates, every gain
\* of the candidates, both gain modes, with and without independence.
NonmyopicGainArgs ==
    {[cand_idx_set |-> rows, score |-> sc, gain_mode |-> mode,
      nonmyopic_independence |-> ind] :
        rows \in UNION {[1..n_rows -> [1..M -> 0..1]] :
                           n_rows \in 1..3, M \in 1..MaxLookAhead},
        sc \in [1..2 -> Scores],
        mode \in {"nonmyopic", "batch"},
        ind \in BOOLEAN}

InitNonmyopicGain ==
    /\ strategy = "nonmyopic_gain"
    /\ args \in NonmyopicGainArgs

NonmyopicGainCall ==
    /\ strategy = "nonmyopic_gain"
    /\ pc = "start"
    /\ \E g \in {nonmyopic_gain(args.cand_idx_set, Len(args.score),
                                 args.score, args.gain_mode,
                                 args.nonmyopic_independence)} :
           /\ raised' = g.raised
           /\ returned' = IF g.raised = None THEN Some(g.value) ELSE None
           /\ pc' = IF g.raised = None THEN "returned" ELSE "raised"
    /\ UNCHANGED <<strategy, obj, args, env, loc, work, warned>>

InitHelpers ==
    /\ \/ InitTransformMetric
       \/ InitOptimalPrior
       \/ InitGenLabelVec
       \/ InitNonmyopicGain
    /\ obj = NoObject
    /\ env = NoEnv
    /\ pc = "start"
    /\ loc = NoLocals
    /\ work = <<>>
    /\ warned = <<>>
    /\ raised = None
    /\ returned = None

NextHelpers ==
    \/ TransformMetricCall
    \/ OptimalPriorCall
    \/ GenLabelVecCall
    \/ NonmyopicGainCall

SpecHelpers == InitHelpers /\ [][NextHelpers]_vars

(***************************************************************************)
(* Properties.                                                             *)
(***************************************************************************)
Ended == pc \in {"raised", "returned"}

IsDistinct(s) == \A a, b \in DOMAIN s : a # b => s[a] # s[b]

GreedyCall ==
    /\ strategy = "XPAL"
    /\ obj.batch_mode = "greedy"
    /\ obj.metric = "error"
    /\ obj.nonmyopic_neighbors \in {"nearest", "same"}
    /\ obj.nonmyopic_independence

FullCall ==
    /\ strategy = "XPAL"
    /\ obj.batch_mode = "full"
    /\ obj.metric = "error"
    /\ obj.nonmyopic_neighbors \in {"nearest", "same"}
    /\ obj.nonmyopic_independence

\* C1: in greedy mode (here where NaN is cast to the smallest integer) no
\* pass of the loop fails on an index that is no candidate, the candidates
\* evaluated in a pass exclude every candidate selected in an earlier pass,
\* and the batch_size indices returned are pairwise distinct indices of
\* candidates.
C1_GreedySelectsDistinctCandidates ==
    (GreedyCall /\ args.batch_size \in 1..n_cand
        /\ env.nan_as_int = IntMin) =>
        /\ raised # Some("IndexError")
        /\ \A a \in 1..(Len(loc.selected) - 1) :
              loc.selected[a] \notin Range(loc.unlabeled_cand_idx)
        /\ returned # None =>
              LET best_indices == TheValue(returned).best_indices
              IN  /\ Len(best_indices) = args.batch_size
                  /\ Range(best_indices) \subseteq 0..(n_cand - 1)
                  /\ IsDistinct(best_indices)

\* C2: a call in full mode with a look-ahead above 1 ends with
\* NotImplementedError and has done no numeric work by then: the metric is
\* not resolved, no prior and no kernel matrix is computed.
C2_FullLookAheadFailsFirst ==
    (FullCall /\ args.batch_size \in 1..n_cand
        /\ obj.nonmyopic_look_ahead > 1 /\ Ended) =>
        /\ raised = Some("NotImplementedError")
        /\ work = <<>>

\* C3: a greedy selection of 2 among 3 candidates of equal utility, with a
\* seed (here where NaN is cast to the smallest integer), completes and
\* returns a pair of indices (the pair the seed fixes).
C3_GreedyTieCompletes ==
    (GreedyCall /\ args.batch_size = 2 /\ n_cand = 3
        /\ env.nan_as_int = IntMin
        /\ obj.random_state # None
        /\ \A a, b \in 1..n_cand : env.score[a] = env.score[b]
        /\ Ended) =>
        /\ pc = "returned"
        /\ Len(TheValue(returned).best_indices) = 2

\* The ordered selections of r distinct candidates among n.
OrderedSelections(n, r) ==
    {perm \in [1..r -> 0..(n - 1)] : IsDistinct(perm)}

C5_SmallCandidateSetIsClamped ==
    (strategy = "XPAL" /\ obj.metric = "error"
        /\ obj.batch_mode \in {"greedy", "full"}
        /\ obj.nonmyopic_neighbors \in {"nearest", "same"}
        /\ obj.nonmyopic_independence /\ obj.nonmyopic_look_ahead = 1
        /\ env.nan_as_int = IntMin
        /\ n_cand < args.batch_size /\ Ended) =>
        /\ pc = "returned"
        /\ warned # <<>>
        /\ Len(TheValue(returned).best_indices) = n_cand

InvalidConfiguration ==
    \/ args.batch_size < 1
    \/ obj.batch_mode \notin {"greedy", "full"}
    \/ obj.nonmyopic_neighbors \notin {"nearest", "same"}

\* C6: a call with a batch_size below 1, an unknown batch_mode or an unknown
\* nonmyopic_neighbors ends with an exception, and has computed no prior,
\* kernel matrix or gain by then.
C6_InvalidConfigurationFailsFirst ==
    (strategy = "XPAL" /\ obj.metric = "error" /\ InvalidConfiguration
        /\ Ended) =>
        /\ pc = "raised"
        /\ \A a \in DOMAIN work : work[a] = "_transform_metric"

\* C10: with metric 'misclassification-loss', a valid cost_matrix and no
\* cost_vector, the metric resolves to that matrix and no performance
\* function, and the resolution does not fail.
C10_MisclassificationLossKeepsMatrix ==
    (strategy = "XPAL" /\ obj.metric = "misclassification-loss"
        /\ obj.cost_vector = None /\ obj.cost_matrix # None
        /\ check_cost_matrix(TheValue(obj.cost_matrix), n_classes) = None
        /\ ~InvalidConfiguration
        /\ pc # "start") =>
        /\ loc.metric = Some("misclassification-loss")
        /\ loc.cost_matrix = obj.cost_matrix
        /\ loc.perf_func = None

\* C7: McPAL.query with an m_max below 1 or not an integer never fits the
\* classifier, computes no utility and returns nothing; it ends with a
\* ValueError or TypeError, the ValueError of the m_max check when the
\* classifier and the prior are valid.
C7_McPALRejectsMMax ==
    (strategy = "McPAL"
        /\ (RealLess(obj.m_max, Real(1)) \/ ~IsInteger(obj.m_max))) =>
        /\ ~obj.clf.fitted
        /\ work = <<>>
        /\ loc.utilities = None
        /\ returned = None
        /\ pc \in {"start", "check_params", "raised"}
        /\ pc = "raised" => raised \in {Some("ValueError"), Some("TypeError")}
        /\ (pc = "raised" /\ obj.clf.ClassFrequencyEstimator) =>
              raised = Some("ValueError")

C7_Witness ==
    /\ strategy = "McPAL"
    /\ obj.m_max = Real(0)
    /\ obj.clf.ClassFrequencyEstimator
    /\ obj.prior > 0
    /\ pc = "raised"
    /\ raised = Some("ValueError")

IsScenario ==
    /\ strategy = "_cost_reduction"
    /\ args.k_vec_list = ScenarioFreqs
    /\ args.C \in {None, Some(ScenarioCost)}
    /\ args.prior = ScenarioPrior
    /\ args.m_max = 1

\* C8: with 2 classes, the cost matrix ((0, 1), (1, 0)), prior 1 and
\* m_max = 1, _cost_reduction returns a positive value for the frequency
\* vector (5, 5) and 0 for (10, 0).
C8_ScenarioUtilities ==
    (IsScenario /\ Ended) =>
        /\ pc = "returned"
        /\ RealLess(Real(0), TheValue(returned)[1])
        /\ RealEq(TheValue(returned)[2], Real(0))

C8_Witness ==
    /\ IsScenario
    /\ args.C = Some(ScenarioCost)
    /\ pc = "returned"
    /\ TheValue(returned) = << <<1, 26>>, <<0, 1>> >>

\* C9 as stated: for non-negative frequency vectors, a non-negative cost
\* matrix with zero diagonal, m_max >= 1 and a positive prior, scalar or
\* per class, every utility _cost_reduction returns is >= 0.
C9_UtilityNonNegative ==
    (strategy = "_cost_reduction" /\ args.m_max >= 1 /\ Ended) =>
        /\ pc = "returned"
        /\ \A a \in DOMAIN TheValue(returned) :
              ~RealLess(TheValue(returned)[a], Real(0))

\* The off-diagonal costs are all equal (None is the error matrix).
HasUniformCosts(C) ==
    C = None
    \/ \A i, j, k, l \in DOMAIN TheValue(C) :
          (i # j /\ k # l) => TheValue(C)[i][j] = TheValue(C)[k][l]

\* C9 as amended: for non-negative frequency vectors, m_max >= 1, a positive
\* scalar prior and a zero-diagonal cost matrix whose off-diagonal costs are
\* all equal (such as the default error matrix), every utility
\* _cost_reduction returns is >= 0.
C9_UtilityNonNegativeUniformCosts ==
    (strategy = "_cost_reduction" /\ args.m_max >= 1 /\ Ended
        /\ IsScalarPrior(args.prior) /\ HasUniformCosts(args.C)) =>
        /\ pc = "returned"
        /\ \A a \in DOMAIN TheValue(returned) :
              ~RealLess(TheValue(returned)[a], Real(0))

C9_Witness ==
    /\ strategy = "_cost_reduction"
    /\ pc = "returned"
    /\ args.m_max = 2
    /\ args.C = Some(<< <<0, 2>>, <<2, 0>> >>)
    /\ args.prior = <<2, 2>>
    /\ args.k_vec_list = << <<1, 1>> >>
    /\ RealLess(Real(0), TheValue(returned)[1])

\* The matrix with C[i][j] = v[i] off the diagonal and 0 on it.
CostVectorMatrix(v) ==
    [i \in 1..Len(v) |-> [j \in 1..Len(v) |-> IF i = j THEN 0 ELSE v[i]]]

\* C11: for metric 'cost-vector' and a cost vector of length n_classes,
\* _transform_metric does not fail and resolves to the matrix with
\* C[i][j] = v[i] off the diagonal, 0 on it, and no performance function.
C11_CostVectorResolves ==
    (strategy = "_transform_metric" /\ args.metric = "cost-vector"
        /\ args.cost_vector # None
        /\ TheValue(args.cost_vector).shape = <<args.n_classes>>
        /\ pc # "start") =>
        /\ pc = "returned"
        /\ TheValue(returned) =
               [metric |-> "misclassification-loss",
                cost_matrix |->
                    Some(Matrix(CostVectorMatrix(
                        TheValue(args.cost_vector).data))),
                perf_func |-> None]

\* C12: a call with a non-decomposable metric ('macro-accuracy' or
\* 'f1-score') and an otherwise valid configuration resolves the metric to
\* a performance function with no cost matrix, reaches the gain computation
\* and ends without an exception.
C12_CustomMetricReachesGain ==
    (strategy = "XPAL" /\ obj.metric \in {"macro-accuracy", "f1-score"}
        /\ ~InvalidConfiguration
        /\ args.batch_size <= n_cand
        /\ obj.nonmyopic_look_ahead = 1
        /\ obj.nonmyopic_independence
        /\ Ended) =>
        /\ pc = "returned"
        /\ loc.metric = Some("custom")
        /\ loc.cost_matrix = None
        /\ loc.perf_func # None
        /\ \E a \in DOMAIN work : work[a] = "nonmyopic_gain"

\* The determinant of a 2 x 2 matrix.
Det2(C) == C[1][1] * C[2][2] - C[1][2] * C[2][1]

\* The numerators (over the determinant) of the row vector M with
\* M C = (1, 1): the one solution of the two linear equations.
OnesTimesInverse(C) ==
    CHOOSE M \in [1..2 -> (0 - 2 * MaxCost)..(2 * MaxCost)] :
        \A j \in 1..2 : M[1] * C[1][j] + M[2] * C[2][j] = Det2(C)

\* C13: on an invertible cost matrix calculate_optimal_prior returns
\* ones * inverse(C) divided by its sum, a vector of entries >= 0 that sum
\* to 1, when no entry of ones * inverse(C) is negative, and the uniform
\* vector when one is.
C13_OptimalPrior ==
    (strategy = "calculate_optimal_prior" /\ args.cost_matrix # None
        /\ Det2(TheValue(args.cost_matrix).data) # 0
        /\ pc # "start") =>
        /\ pc = "returned"
        /\ LET C == TheValue(args.cost_matrix).data
               M == OnesTimesInverse(C)
               r == TheValue(returned)
           IN  /\ Len(r) = 2
               /\ IF \A i \in 1..2 : M[i] * Det2(C) >= 0
                  THEN /\ \A i \in 1..2 :
                            /\ ~IsNaN(r[i])
                            /\ RealEq(r[i], <<M[i], M[1] + M[2]>>)
                            /\ ~RealLess(r[i], Real(0))
                       /\ RealEq(RealAdd(r[1], r[2]), Real(1))
                  ELSE \A i \in 1..2 : r[i] = <<1, 2>>

C13_Witness ==
    /\ strategy = "calculate_optimal_prior"
    /\ args.cost_matrix = Some(Matrix(<< <<0, 1>>, <<2, 0>> >>))
    /\ pc = "returned"
    /\ returned = Some(<< <<2, 3>>, <<1, 3>> >>)

RECURSIVE Binomial(_, _)
Binomial(n, k) ==
    IF k = 0 THEN 1
    ELSE IF n = 0 THEN 0
    ELSE Binomial(n - 1, k - 1) + Binomial(n - 1, k)

\* C14: for m >= 0 and n_classes >= 1 the generator returns
\* C(m + n_classes - 1, n_classes - 1) vectors, no vector twice: the vectors
\* of n_classes non-negative integers that sum to m.
C14_LabelVectorsComplete ==
    (strategy = "_gen_l_vec_list" /\ args.m_approx >= 0
        /\ args.n_classes >= 1 /\ pc # "start") =>
        /\ pc = "returned"
        /\ LET l == TheValue(returned)
               m == args.m_approx
               nc == args.n_classes
           IN  /\ Len(l) = Binomial(m + nc - 1, nc - 1)
               /\ IsDistinct(l)
               /\ Range(l) = {v \in [1..nc -> 0..m] : SeqSum(v) = m}

C14_Witness ==
    /\ strategy = "_gen_l_vec_list"
    /\ args = [m_approx |-> 2, n_classes |-> 3]
    /\ pc = "returned"
    /\ Len(TheValue(returned)) = 6
    /\ TheValue(returned)[1] = <<0, 0, 2>>

\* C15: for n_classes < 1 or m < 0 the generator ends with an exception
\* and returns nothing.
C15_InvalidLabelArgsFail ==
    (strategy = "_gen_l_vec_list"
        /\ (args.n_classes < 1 \/ args.m_approx < 0)
        /\ pc # "start") =>
        /\ pc = "raised"
        /\ returned = None

\* C16: the utility matrix a greedy call returns has batch_size rows of
\* n_candidates entries, and row i holds, for the candidates evaluated in
\* pass i, the utilities computed in that pass, and NaN elsewhere.
C16_UtilityRowsKept ==
    (GreedyCall /\ args.batch_size \in 1..n_cand /\ returned # None) =>
        LET utilities == TheValue(returned).utilities
        IN  /\ Len(utilities) = args.batch_size
            /\ \A i \in 1..args.batch_size :
                  /\ Len(utilities[i]) = n_cand
                  /\ utilities[i] =
                        SetRow(FullNaN(args.batch_size, n_cand), i - 1,
                               loc.steps[i].unlabeled_cand_idx,
                               loc.steps[i].tmp_utilities)[i]

\* C17: when a query call has returned, every attribute of the strategy
\* object has the value the constructor gave it.
C17_QueryPersistsNoState ==
    /\ (strategy = "XPAL" /\ pc = "returned") =>
           obj = [XPALObject(obj.metric, obj.cost_vector, obj.cost_matrix,
                             obj.batch_mode, obj.nonmyopic_look_ahead,
                             obj.nonmyopic_neighbors,
                             obj.nonmyopic_independence, obj.random_state)
                    EXCEPT !.prior_cand = obj.prior_cand,
                           !.prior_eval = obj.prior_eval]
    /\ (strategy = "McPAL" /\ pc = "returned") =>
           obj = McPALObject(obj.clf.ClassFrequencyEstimator, obj.prior,
                             obj.m_max, obj.random_state)

\* C18: in nonmyopic mode the value nonmyopic_gain returns for row r and
\* prefix length d is the gain of the first d indices of the row divided by
\* d, whatever the number of rows and the position of the row.
C18_GainPerLabel ==
    (strategy = "nonmyopic_gain" /\ args.gain_mode = "nonmyopic"
        /\ args.nonmyopic_independence /\ pc = "returned") =>
        \A r \in DOMAIN args.cand_idx_set :
            \A d \in DOMAIN args.cand_idx_set[r] :
                RealEq(TheValue(returned)[r][d],
                       <<ExpectedPerformanceGain(
                             SubSeq(args.cand_idx_set[r], 1, d), args.score),
                         d>>)

\* C19: without nonmyopic_independence nonmyopic_gain completes: it ends
\* without an exception and returns the gains.
C19_DependentProbabilityCompletes ==
    (strategy = "nonmyopic_gain" /\ ~args.nonmyopic_independence
        /\ pc # "start") =>
        /\ pc = "returned"
        /\ raised = None

\* The candidates (0-based, ascending) that are not in the sequence prefix.
NotYetSelected(prefix) ==
    SelectSeq([b \in 1..n_cand |-> b - 1], LAMBDA c : c \notin Range(prefix))

\* tail holds distinct candidates of remaining, as many as M allows, and no
\* candidate left out is more similar to c than one that is in.
IsNearest(tail, c, remaining, M) ==
    LET sim(b) == K(args.X_cand, args.X_cand)[c + 1][b + 1]
    IN  /\ Range(tail) \subseteq Range(remaining)
        /\ IsDistinct(tail)
        /\ Len(tail) = IF M < Len(remaining) THEN M ELSE Len(remaining)
        /\ \A b \in Range(tail) : \A o \in Range(remaining) \ Range(tail) :
               ~RealLess(sim(b), sim(o))

\* C20: in greedy mode the index set of the not-yet-selected candidate c is
\* the selected prefix followed by the look-ahead indices: c repeated for
\* neighbors 'same', the not-yet-selected candidates most similar to c for
\* 'nearest', for every batch size and look-ahead.
C20_GreedyIndexSets ==
    (strategy = "XPAL" /\ obj.batch_mode = "greedy" /\ loc.i_greedy > 0
        /\ obj.nonmyopic_neighbors \in {"same", "nearest"}) =>
        LET n_selected == loc.i_greedy - 1
            prefix == SubSeq(loc.selected, 1, n_selected)
            remaining == NotYetSelected(prefix)
            M == obj.nonmyopic_look_ahead
        IN  /\ Len(loc.cand_idx_set) = Len(remaining)
            /\ \A a \in DOMAIN loc.cand_idx_set :
                  LET row == loc.cand_idx_set[a]
                      tail == SubSeq(row, n_selected + 1, Len(row))
                  IN  /\ SubSeq(row, 1, n_selected) = prefix
                      /\ obj.nonmyopic_neighbors = "same"
                            => tail = [b \in 1..M |-> remaining[a]]
                      /\ obj.nonmyopic_neighbors = "nearest"
                            => IsNearest(tail, remaining[a], remaining, M)

\* C21: the estimator for the candidates is built with the prior
\* prior_cand * optimal prior and the estimator for the evaluation set with
\* prior_eval * optimal prior, so the prior of the evaluation estimator
\* follows prior_eval and not prior_cand.
C21_EstimatorPriors ==
    (strategy = "XPAL" /\ loc.prob_estimator_eval # None) =>
        /\ TheValue(loc.prob_estimator_cand).prior =
               Some(ScaledPrior(obj.prior_cand, TheValue(loc.prior)))
        /\ TheValue(loc.prob_estimator_eval).prior =
               Some(ScaledPrior(obj.prior_eval, TheValue(loc.prior)))

====
